---- MODULE Spec2Model ----
(***************************************************************************)
(* Master Merge Tool: the POST /merge handlers of the three server         *)
(* variants (src/app.js "extended", src/unnamed/part_000 "minimal",        *)
(* src/unnamed/part_002 "pdfonly") and the pure functions they call.       *)
(* JavaScript strings are TLA+ strings; a character is a string of         *)
(* length one.                                                             *)
(***************************************************************************)
EXTENDS Integers, Sequences, FiniteSets, TLC

(***************************************************************************)
(* Bounds of the model.                                                    *)
(***************************************************************************)
MaxFiles == 2
MaxConcFiles == 1
MaxMerges == 2
MaxBatch == 2
MaxTextLines == 2

(***************************************************************************)
(* String primitives of the JavaScript runtime.                            *)
(***************************************************************************)
SeqsUpTo(S, n) == UNION {[1..k -> S] : k \in 0..n}

Ch(s, i) == SubSeq(s, i, i)

UpperLetters == "ABCDEFGHIJKLMNOPQRSTUVWXYZ"
LowerLetters == "abcdefghijklmnopqrstuvwxyz"

LowerChar(c) ==
  IF \E i \in 1..26 : Ch(UpperLetters, i) = c
    THEN Ch(LowerLetters, CHOOSE i \in 1..26 : Ch(UpperLetters, i) = c)
    ELSE c

\* the characters lo..hi of s, each mapped to lower case (by halves, so
\* that the depth of the recursion is logarithmic in the length)
RECURSIVE LowerRange(_, _, _)
LowerRange(s, lo, hi) ==
  IF lo > hi THEN ""
  ELSE IF lo = hi THEN LowerChar(Ch(s, lo))
  ELSE LowerRange(s, lo, (lo + hi) \div 2) \o LowerRange(s, (lo + hi) \div 2 + 1, hi)

\* (the argument is evaluated once, as a function argument)
toLowerCase(str) == [s \in {str} |-> LowerRange(s, 1, Len(s))][str]

includes(str, sub) ==
  [s \in {str} |->
     \E i \in 1..(Len(s) - Len(sub) + 1) : SubSeq(s, i, i + Len(sub) - 1) = sub][str]

endsWith(s, suffix) ==
  /\ Len(s) >= Len(suffix)
  /\ SubSeq(s, Len(s) - Len(suffix) + 1, Len(s)) = suffix

\* String.prototype.split with a one-character separator: the pieces
\* between one separator (or the start) and the next (or the end)
SplitAt(s, cuts) ==
  LET after(k) == IF k = 1 THEN 0
                  ELSE CHOOSE c \in cuts : Cardinality({d \in cuts : d <= c}) = k - 1
      before(k) == IF k = Cardinality(cuts) + 1 THEN Len(s) + 1
                   ELSE CHOOSE c \in cuts : Cardinality({d \in cuts : d <= c}) = k
  IN [k \in 1..(Cardinality(cuts) + 1) |-> SubSeq(s, after(k) + 1, before(k) - 1)]

split(str, sep) ==
  [s \in {str} |-> SplitAt(s, {i \in 1..Len(s) : Ch(s, i) = sep})][str]

(***************************************************************************)
(* Type classifier.                                                        *)
(***************************************************************************)
SUPPORTED ==
  [ pdf        |-> {".pdf"},
    image      |-> {".jpg", ".jpeg", ".png", ".gif", ".webp", ".bmp", ".tiff", ".tif"},
    word       |-> {".docx", ".doc"},
    excel      |-> {".xlsx", ".xls", ".csv"},
    text       |-> {".txt"},
    markdown   |-> {".md", ".markdown"},
    html       |-> {".html", ".htm"},
    powerpoint |-> {".pptx", ".ppt"} ]

SUPPORTED_MIN ==
  [ pdf   |-> {".pdf"},
    image |-> {".jpg", ".jpeg", ".png", ".gif", ".webp", ".bmp", ".tiff", ".tif"},
    text  |-> {".txt"} ]

\* the suffix taken from the first dot of the name instead of the last one
FirstDotSuffix(filename) ==
  LET low  == toLowerCase(filename)
      dots == {i \in 1..Len(low) : Ch(low, i) = "."}
  IN IF dots = {} THEN ""
     ELSE LET d == CHOOSE i \in dots : \A j \in dots : i <= j
          IN IF d < Len(low) THEN SubSeq(low, d, Len(low)) ELSE ""

\* filename.toLowerCase().match(/\.[^.]+$/)?.[0] || ''
FinalDotSuffix(filename) ==
  LET low  == toLowerCase(filename)
      dots == {i \in 1..Len(low) : Ch(low, i) = "."}
  IN IF dots = {} THEN ""
     ELSE LET d == CHOOSE i \in dots : \A j \in dots : j <= i
          IN IF d < Len(low) THEN SubSeq(low, d, Len(low)) ELSE ""

\* the suffix is compared as it is written, without toLowerCase()
getFileTypeCaseSensitive(filename) ==
  LET dots == {i \in 1..Len(filename) : Ch(filename, i) = "."}
      ext  == IF dots = {} THEN ""
              ELSE LET d == CHOOSE i \in dots : \A j \in dots : j <= i
                   IN IF d < Len(filename) THEN SubSeq(filename, d, Len(filename))
                      ELSE ""
  IN IF \E t \in DOMAIN SUPPORTED : ext \in SUPPORTED[t]
       THEN CHOOSE t \in DOMAIN SUPPORTED : ext \in SUPPORTED[t]
       ELSE "null"

getFileType(filename) ==
  LET ext == FinalDotSuffix(filename)
  IN IF \E t \in DOMAIN SUPPORTED : ext \in SUPPORTED[t]
       THEN CHOOSE t \in DOMAIN SUPPORTED : ext \in SUPPORTED[t]
       ELSE "null"

getFileTypeMin(filename) ==
  LET ext == FinalDotSuffix(filename)
  IN IF ext \in SUPPORTED_MIN.pdf THEN "pdf"
     ELSE IF ext \in SUPPORTED_MIN.image THEN "image"
     ELSE IF ext \in SUPPORTED_MIN.text THEN "text"
     ELSE "null"

\* the names getFileType is called with: a stem followed by an ending
NameStems == {"", "a", "A.b", "archive.tar", "x.", "."}

NameEndings ==
  {"", ".", ".pdf", ".PDF", ".Pdf", ".jpg", ".JPEG", ".txt", ".TXT", ".docx",
   ".Md", ".gz", "pdf", ".csv", ".HTM", ".pptx", ".pdf."}

ClassifyNames == {stem \o ending : stem \in NameStems, ending \in NameEndings}

(***************************************************************************)
(* Uploaded buffers.  The bytes of a buffer are abstracted to what the     *)
(* parsing libraries make of them: kind is what the bytes really are       *)
(* (whatever the file is called), pages the page count of a PDF, w and h   *)
(* the pixel size of an image, text the UTF-8 decoding of a text file.     *)
(***************************************************************************)
Buf(kind, pages, w, h, text) ==
  [kind |-> kind, pages |-> pages, w |-> w, h |-> h, text |-> text]

\* Two characters outside the ASCII range, written in ASCII: "~" stands for
\* U+FFFD (the replacement character), "^" for U+6587 (a CJK ideograph).
ReplacementChar == "~"
Ideograph == "^"

\* buffer.toString('utf-8'): bytes that are not text decode to U+FFFD
BufferToString(buffer) ==
  IF buffer.kind \in {"text", "pptx", "badzip"} THEN buffer.text ELSE ReplacementChar

Ok(v)          == [ok |-> TRUE,  value |-> v,  message |-> ""]
Throw(v, msg)  == [ok |-> FALSE, value |-> v,  message |-> msg]

\* PDFDocument.load(buffer, { ignoreEncryption: false }) followed by
\* doc.getPageIndices(): the number of pages, or the library's error
PDFDocumentLoad(buffer) ==
  IF buffer.kind = "pdf" THEN Ok(buffer.pages)
  ELSE IF buffer.kind = "encpdf"
    THEN Throw(0, "Input document to PDFDocument.load is encrypted.")
  ELSE Throw(0, "No PDF header found.")

\* sharp(buffer).metadata()
SharpMetadata(buffer) ==
  IF buffer.kind = "image" THEN Ok(<<buffer.w, buffer.h>>)
  ELSE Throw(<<0, 0>>, "Input buffer contains unsupported image format")

(***************************************************************************)
(* Image normaliser.                                                       *)
(***************************************************************************)
QualitySetting(quality) ==
  IF quality = "low" THEN [jpeg |-> 50, resize |-> 1200, own |-> TRUE]
  ELSE IF quality = "medium" THEN [jpeg |-> 75, resize |-> 2000, own |-> TRUE]
  ELSE IF quality = "high" THEN [jpeg |-> 95, resize |-> 4000, own |-> TRUE]
  ELSE IF quality \in {"constructor", "toString", "valueOf"}
    \* an inherited property of the object literal: truthy, no jpeg/resize
    THEN [jpeg |-> 80, resize |-> 0, own |-> FALSE]
  ELSE [jpeg |-> 75, resize |-> 2000, own |-> TRUE]

RoundDiv(a, b) == (2 * a + b) \div (2 * b)

\* resize(R, R, { fit: 'inside', withoutEnlargement: true })
ResizeInside(w, h, R) ==
  IF w <= R /\ h <= R THEN <<w, h>>
  ELSE IF w >= h
    THEN <<R, IF RoundDiv(h * R, w) < 1 THEN 1 ELSE RoundDiv(h * R, w)>>
    ELSE <<IF RoundDiv(w * R, h) < 1 THEN 1 ELSE RoundDiv(w * R, h), R>>

imageToPdfPage(buffer, quality) ==
  LET settings == QualitySetting(quality)
      metadata == SharpMetadata(buffer)
  IN IF ~metadata.ok
       THEN Throw([width |-> 0, height |-> 0, jpeg |-> 0], metadata.message)
     ELSE LET w == metadata.value[1]
              h == metadata.value[2]
              dims == IF settings.own /\ (w > settings.resize \/ h > settings.resize)
                        THEN ResizeInside(w, h, settings.resize)
                        ELSE <<w, h>>
          IN Ok([width |-> dims[1], height |-> dims[2], jpeg |-> settings.jpeg])

(***************************************************************************)
(* Pages of the output document.  src is the 1-based position in the       *)
(* request of the file the page was appended for (0 for none).  Lengths    *)
(* are fractions over den: a page of size[1]/den by size[2]/den points.    *)
(***************************************************************************)
Page(src, kind, title, lines, size, drawn, den) ==
  [src |-> src, kind |-> kind, title |-> title, lines |-> lines,
   size |-> size, drawn |-> drawn, den |-> den]

Max(a, b) == IF a >= b THEN a ELSE b

\* scale = Math.min(612 / width, 792 / height, 1); addPage; drawImage
ImagePage(src, processed) ==
  LET w == processed.width
      h == processed.height
      den == IF w <= 612 /\ h <= 792 THEN 1
             ELSE IF 612 * h <= 792 * w THEN w ELSE h
      num == IF w <= 612 /\ h <= 792 THEN 1
             ELSE IF 612 * h <= 792 * w THEN 612 ELSE 792
      dw == w * num
      dh == h * num
  IN Page(src, "image", "", <<>>,
          <<Max(dw, 100 * den), Max(dh, 100 * den)>>, <<dw, dh>>, den)

CopiedPage(src, n) == Page(src, "copy", "", <<>>, <<n, 0>>, <<0, 0>>, 1)

(***************************************************************************)
(* Text paginator.  The font is Courier, whose every glyph is 600/1000 em  *)
(* wide; widthOfTextAtSize and drawText throw on a character outside the   *)
(* font's WinAnsi encoding.                                                *)
(***************************************************************************)
CourierAdvance == 600
pageWidth  == 612
pageHeight == 792
margin     == 50
titleReserved == 40

NonWinAnsi == {Ideograph, ReplacementChar}

Unencodable(s) == {i \in 1..Len(s) : Ch(s, i) \in NonWinAnsi}

\* the message names the first character that cannot be encoded
WinAnsiError(s) ==
  "WinAnsi cannot encode "
    \o Ch(s, CHOOSE i \in Unencodable(s) : \A j \in Unencodable(s) : i <= j)

\* a test against the width of the page instead of the column
TooWideForPage(test, fontSize) ==
  Len(test) * CourierAdvance * fontSize > pageWidth * 1000

\* font.widthOfTextAtSize(test, fontSize) > maxWidth, in 1/1000 pt
TooWide(test, fontSize) ==
  Len(test) * CourierAdvance * fontSize > (pageWidth - margin * 2) * 1000

\* a word wrap that starts the new line without the overflowing word
RECURSIVE WrapWordsDropping(_, _, _, _, _)
WrapWordsDropping(words, k, current, out, fontSize) ==
  IF k > Len(words)
    THEN (IF current # "" THEN Append(out, current) ELSE out)
  ELSE LET word == words[k]
           test == IF current # "" THEN current \o " " \o word ELSE word
       IN IF TooWide(test, fontSize) /\ current # ""
            THEN WrapWordsDropping(words, k + 1, "", Append(out, current), fontSize)
            ELSE WrapWordsDropping(words, k + 1, test, out, fontSize)

\* the inner loop of the word wrap over the words of one line
RECURSIVE WrapWords(_, _, _, _, _)
WrapWords(words, k, current, out, fontSize) ==
  IF k > Len(words)
    THEN (IF current # "" THEN Append(out, current) ELSE out)
  ELSE LET word == words[k]
           test == IF current # "" THEN current \o " " \o word ELSE word
       IN IF TooWide(test, fontSize) /\ current # ""
            THEN WrapWords(words, k + 1, word, Append(out, current), fontSize)
            ELSE WrapWords(words, k + 1, test, out, fontSize)

\* what one line of the text adds to wrappedLines
WrapLine(line, fontSize) ==
  IF line = "" THEN <<"">>
  ELSE [words \in {split(line, " ")} |->
          WrapWords(words, 1, "", <<>>, fontSize)][split(line, " ")]

\* the outer loop of the word wrap, over the lines lo..hi of the text (by
\* halves, so that the depth of the recursion is logarithmic)
RECURSIVE WrapLines(_, _, _, _)
WrapLines(lines, lo, hi, fontSize) ==
  IF lo > hi THEN <<>>
  ELSE IF lo = hi THEN WrapLine(lines[lo], fontSize)
  ELSE WrapLines(lines, lo, (lo + hi) \div 2, fontSize)
         \o WrapLines(lines, (lo + hi) \div 2 + 1, hi, fontSize)

WordWrap(text, fontSize) ==
  [lines \in {split(text, "\n")} |->
     WrapLines(lines, 1, Len(lines), fontSize)][split(text, "\n")]

\* Math.floor((pageHeight - margin * 2 - (title ? 40 : 0)) / lineHeight),
\* lineHeight = fontSize * lineFactor / 10
MaxLinesPerPage(title, fontSize, lineFactor) ==
  ((pageHeight - margin * 2 - (IF title # "" THEN titleReserved ELSE 0)) * 10)
     \div (fontSize * lineFactor)

\* the page loop: for (i = 0; i < wrappedLines.length; i += maxLines)
RECURSIVE CreatePages(_, _, _, _, _, _)
CreatePages(src, wrappedLines, i, maxLines, title, pages) ==
  IF i >= Len(wrappedLines) THEN [pages |-> pages, ok |-> TRUE, message |-> ""]
  ELSE LET last == IF i + maxLines < Len(wrappedLines)
                     THEN i + maxLines ELSE Len(wrappedLines)
           pageLines == SubSeq(wrappedLines, i + 1, last)
           size == <<pageWidth, pageHeight>>
       IN IF i = 0 /\ title # "" /\ Unencodable(title) # {}
            \* the page is added, then drawText(title) throws
            THEN [pages |-> Append(pages, Page(src, "text", "", <<>>, size, <<0, 0>>, 1)),
                  ok |-> FALSE, message |-> WinAnsiError(title)]
            ELSE CreatePages(src, wrappedLines, i + maxLines, maxLines, title,
                   Append(pages,
                          Page(src, "text", IF i = 0 THEN title ELSE "",
                               pageLines, size, <<0, 0>>, 1)))

\* the synchronous part of textToPdfPages, after the fonts are embedded:
\* the pages it adds to the document and whether it threw
Paginate(src, text, title, fontSize, lineFactor) ==
  IF Unencodable(text) # {}
    THEN [pages |-> <<>>, ok |-> FALSE, message |-> WinAnsiError(text)]
    ELSE [wrappedLines \in {WordWrap(text, fontSize)} |->
            CreatePages(src, wrappedLines, 0,
                        MaxLinesPerPage(title, fontSize, lineFactor), title, <<>>)
         ][WordWrap(text, fontSize)]

\* src/app.js: fontSize 10, lineHeight fontSize * 1.5, optional title
textToPdfPages(src, text, title) == Paginate(src, text, title, 10, 15)

\* src/unnamed/part_000: fontSize 11, lineHeight fontSize * 1.4, no title
textToPdfPagesMin(src, text) == Paginate(src, text, "", 11, 14)

\* fontSize and lineHeight / fontSize * 10 of the two textToPdfPages
FontSize(font) == IF font = "minimal" THEN 11 ELSE 10

LineFactor(font) == IF font = "minimal" THEN 14 ELSE 15

(***************************************************************************)
(* Document-to-text extractors of src/app.js, for buffers that hold no     *)
(* markup ("<", "&") and no run of three or more newlines.                 *)
(***************************************************************************)
\* String.prototype.trim: from the first to the last non-space character
trim(str) ==
  [s \in {str} |->
     LET inked == {i \in 1..Len(s) : Ch(s, i) \notin {" ", "\n", "\t", "\r"}}
     IN IF inked = {} THEN ""
        ELSE SubSeq(s, CHOOSE i \in inked : \A j \in inked : i <= j,
                       CHOOSE i \in inked : \A j \in inked : j <= i)][str]

\* .replace(/[^\x20-\x7E\n\r\t]/g, ' ')
RECURSIVE ReplaceRange(_, _, _)
ReplaceRange(s, lo, hi) ==
  IF lo > hi THEN ""
  ELSE IF lo = hi THEN (IF Ch(s, lo) \in NonWinAnsi THEN " " ELSE Ch(s, lo))
  ELSE ReplaceRange(s, lo, (lo + hi) \div 2) \o ReplaceRange(s, (lo + hi) \div 2 + 1, hi)

ReplaceNonPrintable(str) == [s \in {str} |-> ReplaceRange(s, 1, Len(s))][str]

\* mammoth.extractRawText, else the printable bytes of the raw buffer
wordToText(buffer) ==
  IF buffer.kind = "docx" THEN buffer.text
  ELSE ReplaceNonPrintable(BufferToString(buffer))

RECURSIVE padEnd(_, _)
padEnd(s, n) == IF Len(s) >= n THEN s ELSE padEnd(s \o " ", n)

RECURSIVE repeat(_, _)
repeat(c, n) == IF n <= 0 THEN "" ELSE c \o repeat(c, n - 1)

RECURSIVE join(_, _)
join(parts, sep) ==
  IF Len(parts) = 0 THEN ""
  ELSE IF Len(parts) = 1 THEN parts[1]
  ELSE parts[1] \o sep \o join(Tail(parts), sep)

Min(a, b) == IF a <= b THEN a ELSE b

\* XLSX.read of CSV text + sheet_to_json(sheet, { header: 1, defval: '' }):
\* the rows of the single sheet, every row as wide as the widest
SheetData(text) ==
  IF text = "" THEN <<>>
  ELSE LET raw == [k \in DOMAIN split(text, "\n") |-> split(split(text, "\n")[k], ",")]
           width == CHOOSE n \in {Len(raw[k]) : k \in DOMAIN raw} :
                      \A k \in DOMAIN raw : Len(raw[k]) <= n
       IN [k \in DOMAIN raw |->
             [i \in 1..width |-> IF i <= Len(raw[k]) THEN raw[k][i] ELSE ""]]

\* colWidths[i] = Math.min(Math.max(colWidths[i] || 0, len), 30), over all rows
ColWidths(data) ==
  [i \in 1..Len(data[1]) |->
     Min(30, CHOOSE n \in {Len(data[k][i]) : k \in DOMAIN data} :
               \A k \in DOMAIN data : Len(data[k][i]) <= n)]

\* the box-drawing characters U+2502, U+2500 and U+253C are written "|",
\* "-" and "+"
TableRow(row, colWidths) ==
  join([i \in DOMAIN row |->
          padEnd(SubSeq(row[i], 1, Min(30, Len(row[i]))),
                 IF colWidths[i] # 0 THEN colWidths[i] ELSE 10)], " | ")

HeaderRule(colWidths) ==
  join([i \in DOMAIN colWidths |-> repeat("-", colWidths[i])],
       "-+-")

RECURSIVE TableRows(_, _, _)
TableRows(data, colWidths, k) ==
  IF k > Len(data) THEN ""
  ELSE TableRow(data[k], colWidths) \o "\n"
         \o (IF k = 1 THEN HeaderRule(colWidths) \o "\n" ELSE "")
         \o TableRows(data, colWidths, k + 1)

\* one workbook sheet (CSV); unreadable bytes end in the catch branch
excelToText(buffer, filename) ==
  IF buffer.kind # "text" THEN "Error reading spreadsheet: Unsupported file"
  ELSE LET data == SheetData(buffer.text)
       IN IF Len(data) = 0 THEN trim("(Empty sheet)\n")
          ELSE trim(TableRows(data, ColWidths(data), 1) \o "\n")

\* str.match(/<a:t>([^<]+)<\/a:t>/g), tags stripped: the matches that
\* start at position i or later, found from left to right
RECURSIVE TextRuns(_, _)
TextRuns(str, i) ==
  LET opens == {o \in i..(Len(str) - 4) :
                  /\ SubSeq(str, o, o + 4) = "<a:t>"
                  /\ \E j \in (o + 6)..Len(str) :
                       /\ \A m \in (o + 5)..(j - 1) : Ch(str, m) # "<"
                       /\ SubSeq(str, j, Min(Len(str), j + 5)) = "</a:t>"}
  IN IF opens = {} THEN <<>>
     ELSE LET o == CHOOSE x \in opens : \A y \in opens : x <= y
              j == CHOOSE e \in (o + 6)..Len(str) :
                     /\ Ch(str, e) = "<"
                     /\ \A m \in (o + 5)..(e - 1) : Ch(str, m) # "<"
          IN <<SubSeq(str, o + 5, j - 1)>> \o TextRuns(str, j + 6)

\* XLSX.read(buffer, { type: 'buffer', bookType: 'xlsx' }) and sheet_to_txt
\* of every sheet: text is read as one sheet of comma-separated cells, a
\* presentation ("pptx") opens with no sheet, and a damaged archive
\* ("badzip", whose stored markup is still readable) or other bytes throw
XLSXRead(buffer) ==
  IF buffer.kind = "text" THEN Ok(<<join(split(buffer.text, ","), "\t")>>)
  ELSE IF buffer.kind = "pptx" THEN Ok(<<>>)
  ELSE Throw(<<>>, "Unsupported file")

pptxToText(buffer) ==
  LET zip == XLSXRead(buffer)
      content == zip.value
      \* if (content) text += content + '\n\n', for the one sheet at most
      text == IF Len(content) = 0 \/ content[1] = "" THEN ""
              ELSE content[1] \o "\n\n"
      scraped == join(TextRuns(BufferToString(buffer), 1), "\n")
      final == IF trim(text) = "" THEN scraped ELSE text
  IN IF ~zip.ok THEN "(PowerPoint extraction error: " \o zip.message \o ")"
     ELSE IF final # "" THEN final
     ELSE "(Could not extract text from presentation)"

\* the replace chain leaves markup-free text alone; then .trim()
stripHtml(html) == trim(html)

\* marked(md) wraps a markup-free paragraph in <p>...</p>\n; on markdown
\* nested deeper than its stack allows (written DeepMarkdown) it throws
DeepMarkdown == ">>>>"

marked(md) ==
  IF md = DeepMarkdown THEN Throw("", "Maximum call stack size exceeded") ELSE Ok(md)

\* no try/catch: what marked throws leaves the function
markdownToText(buffer) ==
  LET html == marked(BufferToString(buffer))
  IN IF html.ok THEN Ok(stripHtml(html.value)) ELSE html

htmlToText(buffer) == stripHtml(BufferToString(buffer))

(***************************************************************************)
(* The numbers the comparators compute with: finite integers, the two      *)
(* infinities and NaN.                                                     *)
(***************************************************************************)
Num(n) == [kind |-> "finite", n |-> n]
Infinity == [kind |-> "infinity", n |-> 1]
NaN == [kind |-> "nan", n |-> 0]

\* x - y
Minus(x, y) ==
  IF x.kind = "nan" \/ y.kind = "nan" THEN NaN
  ELSE IF x.kind = "finite" /\ y.kind = "finite" THEN Num(x.n - y.n)
  ELSE IF x.kind = "infinity" /\ y.kind = "infinity"
    THEN (IF x.n = y.n THEN NaN ELSE x)
  ELSE IF x.kind = "infinity" THEN x
  ELSE [kind |-> "infinity", n |-> 0 - y.n]

\* a number used as a condition: NaN and 0 are falsy
Truthy(x) == ~(x.kind = "nan" \/ (x.kind = "finite" /\ x.n = 0))

\* -1, 0 or 1; a sort treats a NaN from its comparator as 0
Sign(x) ==
  IF x.kind = "nan" THEN 0
  ELSE IF x.n < 0 THEN -1 ELSE IF x.n > 0 THEN 1 ELSE 0

IsDigit(c) == \E d \in 1..10 : Ch("0123456789", d) = c

DigitValue(c) == (CHOOSE d \in 1..10 : Ch("0123456789", d) = c) - 1

\* the value of a run of digits
RECURSIVE ParseDigits(_, _, _)
ParseDigits(run, i, acc) ==
  IF i > Len(run) THEN acc
  ELSE ParseDigits(run, i + 1, 10 * acc + DigitValue(Ch(run, i)))

\* the matches of /(\d+)|(\D+)/g in order: the maximal runs of digits and
\* of other characters
Runs(str) ==
  LET starts == {i \in 1..Len(str) :
                   i = 1 \/ IsDigit(Ch(str, i)) # IsDigit(Ch(str, i - 1))}
      StartOf(k) == CHOOSE i \in starts : Cardinality({j \in starts : j < i}) = k - 1
      EndOf(k) == IF k = Cardinality(starts) THEN Len(str) ELSE StartOf(k + 1) - 1
  IN [k \in 1..Cardinality(starts) |-> SubSeq(str, StartOf(k), EndOf(k))]

(***************************************************************************)
(* String.prototype.localeCompare with the default collation: strings are  *)
(* compared by the primary weights of their characters (punctuation, then  *)
(* digits, then letters without regard to case) and, when these are all    *)
(* equal, by the tertiary weights (lower case before upper case, a digit   *)
(* before its superscript form).  "$" stands for U+00B2, superscript two,  *)
(* which is not matched by \d and has the primary weight of "2".           *)
(***************************************************************************)
SuperscriptTwo == "$"

Primary(c) ==
  LET PunctuationOrder == " _-,;:!?."
  IN
  IF \E i \in 1..Len(PunctuationOrder) : Ch(PunctuationOrder, i) = c
    THEN CHOOSE i \in 1..Len(PunctuationOrder) : Ch(PunctuationOrder, i) = c
  ELSE IF IsDigit(c) THEN 20 + DigitValue(c)
  ELSE IF c = SuperscriptTwo THEN 20 + 2
  ELSE IF \E i \in 1..26 : Ch(LowerLetters, i) = LowerChar(c)
    THEN 40 + (CHOOSE i \in 1..26 : Ch(LowerLetters, i) = LowerChar(c))
  ELSE 100

Tertiary(c) ==
  IF c = SuperscriptTwo \/ (\E i \in 1..26 : Ch(UpperLetters, i) = c) THEN 1 ELSE 0

\* lexicographic comparison of two sequences of weights
CompareWeights(u, v) ==
  LET common == IF Len(u) <= Len(v) THEN Len(u) ELSE Len(v)
      diff == {i \in 1..common : u[i] # v[i]}
  IN IF diff = {}
       THEN (IF Len(u) < Len(v) THEN -1 ELSE IF Len(u) > Len(v) THEN 1 ELSE 0)
     ELSE LET i == CHOOSE k \in diff : \A j \in diff : k <= j
          IN IF u[i] < v[i] THEN -1 ELSE 1

localeCompare(a, b) ==
  LET first == CompareWeights([i \in 1..Len(a) |-> Primary(Ch(a, i))],
                              [i \in 1..Len(b) |-> Primary(Ch(b, i))])
  IN IF first # 0 THEN first
     ELSE CompareWeights([i \in 1..Len(a) |-> Tertiary(Ch(a, i))],
                         [i \in 1..Len(b) |-> Tertiary(Ch(b, i))])

(***************************************************************************)
(* naturalSort of the server.                                              *)
(***************************************************************************)
naturalSort(a, b) ==
  LET \* ax.push([$1 || Infinity, $2 || ""]) for every run
      Chunks(str) ==
        LET runs == Runs(str)
        IN [k \in DOMAIN runs |->
              IF IsDigit(Ch(runs[k], 1))
                THEN [number |-> Num(ParseDigits(runs[k], 1, 0)), text |-> ""]
                ELSE [number |-> Infinity, text |-> runs[k]]]
      ax == Chunks(a)
      bx == Chunks(b)
      common == IF Len(ax) <= Len(bx) THEN Len(ax) ELSE Len(bx)
      \* (an[0] - bn[0]) || an[1].localeCompare(bn[1])
      nn(k) == LET d == Minus(ax[k].number, bx[k].number)
               IN IF Truthy(d) THEN d
                  ELSE Num(localeCompare(ax[k].text, bx[k].text))
      decided == {k \in 1..common : Truthy(nn(k))}
  IN IF decided = {} THEN Num(Len(ax) - Len(bx))
     ELSE nn(CHOOSE k \in decided : \A j \in decided : k <= j)

(***************************************************************************)
(* naturalSort of the page the server sends to the browser.                *)
(***************************************************************************)
\* parseInt of a run: the value of a run of digits, NaN for any other run
parseInt(run) ==
  IF IsDigit(Ch(run, 1)) THEN Num(ParseDigits(run, 1, 0)) ELSE NaN

naturalSortBrowser(a, b) ==
  LET ax == Runs(a)
      bx == Runs(b)
      common == IF Len(ax) <= Len(bx) THEN Len(ax) ELSE Len(bx)
      step(k) == LET an == parseInt(ax[k])
                     bn == parseInt(bx[k])
                 IN IF an.kind # "nan" /\ bn.kind # "nan" /\ an # bn
                      THEN Minus(an, bn)
                      ELSE Num(localeCompare(ax[k], bx[k]))
      decided == {k \in 1..common : Truthy(step(k))}
  IN IF decided = {} THEN Num(Len(ax) - Len(bx))
     ELSE step(CHOOSE k \in decided : \A j \in decided : k <= j)

\* the names the comparators are called with
SortNames ==
  {"", "2", "9", "10", SuperscriptTwo, "a", "A", "b", "a1", "a01", "a2", "a10",
   "1a", "a.b"}

(***************************************************************************)
(* The file list of the page in the browser.  A file of the browser has a  *)
(* display path (webkitRelativePath || name) and a size.                   *)
(***************************************************************************)
BrowserFile(webkitRelativePath, name, size) ==
  [webkitRelativePath |-> webkitRelativePath, name |-> name, size |-> size]

\* f.webkitRelativePath || f.name || 'unnamed'
getFileName(f) ==
  IF f.webkitRelativePath # "" THEN f.webkitRelativePath
  ELSE IF f.name # "" THEN f.name
  ELSE "unnamed"

\* the files a user can pick or drop
BrowserFileSet ==
  { BrowserFile("", "a2.txt", 1), BrowserFile("", "a2.txt", 2),
    BrowserFile("", "A10.TXT", 1), BrowserFile("v1.2/b.pdf", "b.pdf", 1),
    BrowserFile("", "x.exe", 1) }

\* getFileType(f.name) !== null, with the getFileType of the page: the same
\* table and the same suffix rule as the server's; tabulated once for
\* these files
isSupported ==
  [f \in BrowserFileSet |-> getFileType(f.name) # "null"]

\* (a, b) => naturalSort(getFileName(a).toLowerCase(), getFileName(b).toLowerCase()),
\* tabulated once for the display paths of these files
CompareKeys ==
  LET names == {getFileName(f) : f \in BrowserFileSet}
  IN [a \in names |-> [b \in names |->
        Sign(naturalSortBrowser(toLowerCase(a), toLowerCase(b)))]]

\* Array.prototype.sort with a comparator is a stable sort: a file comes
\* after the files the comparator puts before it and after the files it
\* ties with that precede it in the list
SortFiles(list) ==
  LET key == [i \in DOMAIN list |-> getFileName(list[i])]
      before == [i \in DOMAIN list |->
                   {j \in DOMAIN list :
                      LET c == CompareKeys[key[j]][key[i]]
                      IN c < 0 \/ (c = 0 /\ j < i)}]
  IN [p \in DOMAIN list |->
        list[CHOOSE i \in DOMAIN list : Cardinality(before[i]) = p - 1]]

\* supported.forEach(f => files.push(f)), without the look at the list
PushAll(files, supported, n) == files \o SubSeq(supported, n, Len(supported))

\* supported.forEach(f => { if (!files.some(same name and size)) files.push(f) })
RECURSIVE PushNew(_, _, _)
PushNew(files, supported, n) ==
  IF n > Len(supported) THEN files
  ELSE LET f == supported[n]
           known == \E k \in DOMAIN files :
                      getFileName(files[k]) = getFileName(f) /\ files[k].size = f.size
       IN PushNew(IF known THEN files ELSE Append(files, f), supported, n + 1)

addFiles(files, newFiles) ==
  LET supported == SelectSeq(newFiles, LAMBDA f : isSupported[f])
  IN PushNew(files, SortFiles(supported), 1)

\* what one pick or drop hands to addFiles: files in any order, a file
\* possibly more than once
Batches == SeqsUpTo(BrowserFileSet, MaxBatch)

\* updateStats: mergeBtn.disabled = files.length === 0
updateStats(files) == Len(files) = 0

\* files.splice(index, 1)
remove(files, index) ==
  [k \in 1..(Len(files) - 1) |-> IF k < index THEN files[k] ELSE files[k + 1]]

\* a drop that exchanges the dragged item and the item it is dropped on
dropSwapping(files, from, to) ==
  [k \in DOMAIN files |->
     IF k = to THEN files[from] ELSE IF k = from THEN files[to] ELSE files[k]]

\* the drop handler of a list item: if (draggedItem && this !== draggedItem)
\* { const [moved] = files.splice(from, 1); files.splice(to, 0, moved) }
drop(files, from, to) ==
  IF from = to THEN files
  ELSE LET rest == remove(files, from)
       IN [k \in DOMAIN files |->
             IF k < to THEN rest[k]
             ELSE IF k = to THEN files[from]
             ELSE rest[k - 1]]

(***************************************************************************)
(* The requests.  A file is what multer hands to the handler.              *)
(***************************************************************************)
File(name, mimetype, buffer) ==
  [originalname |-> name, mimetype |-> mimetype, buffer |-> buffer]

FileSet ==
  { File("a.pdf",        "application/pdf", Buf("pdf", 2, 0, 0, "")),
    File("enc.PDF",      "application/pdf", Buf("encpdf", 0, 0, 0, "")),
    File("password.pdf", "application/pdf", Buf("junk", 0, 0, 0, "")),
    File("scan",         "application/pdf", Buf("pdf", 1, 0, 0, "")),
    File("b.png",        "image/png",       Buf("image", 0, 3000, 1500, "")),
    File("s.gif",        "image/gif",       Buf("image", 0, 50, 40, "")),
    File("bad.jpg",      "image/jpeg",      Buf("junk", 0, 0, 0, "")),
    File("c.txt",        "text/plain",      Buf("text", 0, 0, 0, "hi there")),
    File("blank.txt",    "text/plain",      Buf("text", 0, 0, 0, " ")),
    File("^.txt",        "text/plain",      Buf("text", 0, 0, 0, "x")),
    File("d.docx",       "application/msword", Buf("docx", 0, 0, 0, "w")) }

ConcFileSet ==
  { f \in FileSet : f.originalname \in {"a.pdf", "enc.PDF", "b.png", "d.docx"} }

Variants == {"extended", "minimal", "pdfonly"}

Request(files, quality, fault) ==
  [files |-> files, quality |-> quality, fault |-> fault]

Requests ==
  {Request(fs, q, "none") :
     fs \in SeqsUpTo(FileSet, MaxFiles), q \in {"", "low", "constructor"}}
    \cup {Request(fs, "", ft) :
            fs \in SeqsUpTo(FileSet, MaxFiles), ft \in {"none", "create", "save"}}

ConcRequests == {Request(fs, "", "none") : fs \in SeqsUpTo(ConcFileSet, MaxConcFiles)}

NoRequest == Request(<<>>, "", "none")

Reqs == {1, 2}

VARIABLES
  variant,   \* which server is deployed
  clients,   \* how many clients send a request
  req,       \* req[r]: the request as received (req.files, req.body.quality)
  pc,        \* pc[r]: where the handler of request r stands
  work,      \* work[r]: positions in req.files of the files the loop visits
  idx,       \* idx[r]: position of the loop in work[r]
  merged,    \* merged[r]: the output document of r (0: not created)
  docs,      \* the documents PDFDocument.create() has made
  tmp,       \* tmp[r]: result of the last await (doc, processed, text)
  err,       \* err[r]: the exception that is being handled
  res,       \* res[r]: the responses sent for r
  lookup,    \* a call of getFileType: its argument and what it returned
  sorting,   \* calls of the two naturalSort on three names, and the results
  browser,   \* the page in the browser: its file list, what it uploaded
  typeset,   \* a call of textToPdfPages: its arguments, its lines, its pages
  extract    \* a call of an extractor: its buffer and what came of it

\* the state of what runs apart from the handlers
pure == <<lookup, sorting, browser, typeset, extract>>

vars == <<variant, clients, req, pc, work, idx, merged, docs, tmp, err, res, pure>>

NoTmp == [pageCount |-> 0, processed |-> [width |-> 0, height |-> 0, jpeg |-> 0],
          text |-> ""]

NoErr == [message |-> "", at |-> 0, stage |-> ""]

Err(message, at, stage) == [message |-> message, at |-> at, stage |-> stage]

\* body: the pages of the PDF that is sent; text: the plain-text message
Response(status, type, body, text) ==
  [status |-> status, type |-> type, body |-> body, text |-> text]

PdfResponse(pages) == Response(200, "application/pdf", pages, "")

TextResponse(status, message) == Response(status, "text/plain", <<>>, message)

InitWith(v, n) ==
  /\ variant = v
  /\ clients = n
  /\ req = [r \in Reqs |-> NoRequest]
  /\ pc = [r \in Reqs |-> "idle"]
  /\ work = [r \in Reqs |-> <<>>]
  /\ idx = [r \in Reqs |-> 0]
  /\ merged = [r \in Reqs |-> 0]
  /\ docs = <<>>
  /\ tmp = [r \in Reqs |-> NoTmp]
  /\ err = [r \in Reqs |-> NoErr]
  /\ res = [r \in Reqs |-> <<>>]

\* the values of these variables while nothing is called
Idle ==
  [lookup |-> [name |-> "", done |-> FALSE, type |-> "", typeMin |-> ""],
   sorting |-> [names |-> <<"", "", "">>, stage |-> 0,
                server |-> [i \in 1..3 |-> [j \in 1..3 |-> NaN]],
                browser |-> [i \in 1..3 |-> [j \in 1..3 |-> NaN]]],
   browser |-> [files |-> <<>>, disabled |-> TRUE, inFlight |-> 0,
                sent |-> <<>>, manual |-> FALSE],
   typeset |-> [text |-> "", title |-> "", font |-> "", stage |-> "idle",
                wrappedLines |-> <<>>, pages |-> <<>>],
   extract |-> [fn |-> "", buffer |-> Buf("", 0, 0, 0, ""), stage |-> "idle",
                text |-> ""]]

\* no function is called on its own
PureIdle ==
  /\ lookup = Idle.lookup
  /\ sorting = Idle.sorting
  /\ browser = Idle.browser
  /\ typeset = Idle.typeset
  /\ extract = Idle.extract

\* a server with one client
Init == (\E v \in Variants : InitWith(v, 1)) /\ PureIdle

\* a server with two clients
InitConc == (\E v \in Variants : InitWith(v, 2)) /\ PureIdle

\* no server: nothing is uploaded
NoServer == InitWith("extended", 0)

(***************************************************************************)
(* The output documents.                                                   *)
(***************************************************************************)
EmptyDoc == [pages |-> <<>>, saved |-> 0]

\* one module-level document that every call hands out
PDFDocumentCreateShared(heap) ==
  IF heap = <<>> THEN [id |-> 1, heap |-> <<EmptyDoc>>] ELSE [id |-> 1, heap |-> heap]

\* await PDFDocument.create(): a document of its own for every call
PDFDocumentCreate(heap) == [id |-> Len(heap) + 1, heap |-> Append(heap, EmptyDoc)]

\* merged.insertPage(0, p) in place of addPage
addPagesAtFront(doc, pages) == [doc EXCEPT !.pages = pages \o @]

\* merged.addPage(p), for each page of a group in turn
addPages(doc, pages) == [doc EXCEPT !.pages = @ \o pages]

\* await merged.save()
save(doc) == [doc EXCEPT !.saved = @ + 1]

CurSrc(r)  == work[r][idx[r]]
CurFile(r) == req[r].files[CurSrc(r)]
filename(r) == CurFile(r).originalname

EncryptedSentence(v) ==
  IF v = "pdfonly"
    THEN "One or more PDFs are encrypted/password-protected. Remove protection and try again."
    ELSE "One or more PDFs are encrypted. Remove password protection and try again."

EmptyBatchSentence(v) ==
  IF v = "pdfonly" THEN "No PDF files uploaded." ELSE "No files uploaded."

\* part_002: uploaded.filter(mimetype === "application/pdf" || name.endsWith(".pdf"))
PdfPositions(files) ==
  LET keep == {i \in DOMAIN files :
                 \/ files[i].mimetype = "application/pdf"
                 \/ endsWith(toLowerCase(files[i].originalname), ".pdf")}
      RECURSIVE Asc(_, _)
      Asc(i, acc) == IF i > Len(files) THEN acc
                     ELSE Asc(i + 1, IF i \in keep THEN Append(acc, i) ELSE acc)
  IN Asc(1, <<>>)

AllPositions(files) == [i \in 1..Len(files) |-> i]

(***************************************************************************)
(* The handler of POST /merge, one action per continuation.                *)
(***************************************************************************)

\* upload.array("files"): the multipart body of a request is parsed and
\* the handler is called with req.files and req.body
Upload(r) ==
  /\ pc[r] = "idle"
  /\ r <= clients
  /\ \E request \in (IF clients = 1 THEN Requests ELSE ConcRequests) :
       req' = [req EXCEPT ![r] = request]
  /\ pc' = [pc EXCEPT ![r] = "start"]
  /\ UNCHANGED <<pure, variant, clients, work, idx, merged, docs, tmp, err, res>>

\* the 400 is sent without "return": the handler carries on
MergeEntryNoReturn(r) ==
  /\ pc[r] = "start"
  /\ LET uploaded == req[r].files
         list == IF variant = "pdfonly" THEN PdfPositions(uploaded)
                 ELSE AllPositions(uploaded)
     IN /\ res' = [res EXCEPT ![r] =
                     IF Len(list) = 0
                       THEN Append(@, TextResponse(400, EmptyBatchSentence(variant)))
                       ELSE @]
        /\ work' = [work EXCEPT ![r] = list]
        /\ pc' = [pc EXCEPT ![r] = "create"]
  /\ UNCHANGED <<pure, variant, clients, req, idx, merged, docs, tmp, err>>

\* the empty-batch check is missing
MergeEntryNoCheck(r) ==
  /\ pc[r] = "start"
  /\ work' = [work EXCEPT ![r] =
                IF variant = "pdfonly" THEN PdfPositions(req[r].files)
                ELSE AllPositions(req[r].files)]
  /\ pc' = [pc EXCEPT ![r] = "create"]
  /\ UNCHANGED <<pure, variant, clients, req, idx, merged, docs, tmp, err, res>>

\* entry: req.files, the empty-batch check
MergeEntry(r) ==
  /\ pc[r] = "start"
  /\ LET uploaded == req[r].files
         list == IF variant = "pdfonly" THEN PdfPositions(uploaded)
                 ELSE AllPositions(uploaded)
     IN IF Len(list) = 0
          THEN /\ res' = [res EXCEPT ![r] =
                            Append(@, TextResponse(400, EmptyBatchSentence(variant)))]
               /\ pc' = [pc EXCEPT ![r] = "done"]
               /\ UNCHANGED work
          ELSE /\ work' = [work EXCEPT ![r] = list]
               /\ pc' = [pc EXCEPT ![r] = "create"]
               /\ UNCHANGED res
  /\ UNCHANGED <<pure, variant, clients, req, idx, merged, docs, tmp, err>>

\* const merged = await PDFDocument.create()
CreateDocument(r) ==
  /\ pc[r] = "create"
  /\ IF req[r].fault = "create"
       THEN /\ err' = [err EXCEPT ![r] = Err("Failed to create document", 0, "create")]
            /\ pc' = [pc EXCEPT ![r] = "catch"]
            /\ UNCHANGED <<merged, docs, idx>>
       ELSE LET created == PDFDocumentCreate(docs)
            IN /\ docs' = created.heap
               /\ merged' = [merged EXCEPT ![r] = created.id]
               /\ idx' = [idx EXCEPT ![r] = 1]
               /\ pc' = [pc EXCEPT ![r] = "loop"]
               /\ UNCHANGED err
  /\ UNCHANGED <<pure, variant, clients, req, work, tmp, res>>

\* a throw while file CurSrc(r) is processed: the inner catch of app.js,
\* the rethrow of part_000, nothing in part_002
FileThrow(r, message, stage) ==
  IF variant = "extended"
    THEN /\ err' = [err EXCEPT ![r] = Err(message, CurSrc(r), stage)]
         /\ pc' = [pc EXCEPT ![r] = "notice"]
  ELSE IF variant = "minimal"
    THEN /\ err' = [err EXCEPT ![r] =
                      Err("Failed to process " \o filename(r) \o ": " \o message,
                          CurSrc(r), stage)]
         /\ pc' = [pc EXCEPT ![r] = "catch"]
  ELSE /\ err' = [err EXCEPT ![r] = Err(message, CurSrc(r), stage)]
       /\ pc' = [pc EXCEPT ![r] = "catch"]

FileDone(r) ==
  /\ idx' = [idx EXCEPT ![r] = @ + 1]
  /\ pc' = [pc EXCEPT ![r] = "loop"]

\* the synchronous extractors of app.js, by category
ExtractSync(type, f) ==
  IF type = "excel" THEN Ok(excelToText(f.buffer, f.originalname))
  ELSE IF type = "markdown" THEN markdownToText(f.buffer)
  ELSE IF type = "html" THEN Ok(htmlToText(f.buffer))
  ELSE IF type = "powerpoint" THEN Ok(pptxToText(f.buffer))
  ELSE Ok(BufferToString(f.buffer))

\* a loop that ends at a file no branch matches
SkipFileAndStop(r) ==
  /\ idx' = [idx EXCEPT ![r] = Len(work[r]) + 1]
  /\ UNCHANGED <<pc, tmp, err>>

\* no branch of the if chain matches: the loop goes on to the next file
SkipFile(r) ==
  /\ idx' = [idx EXCEPT ![r] = @ + 1]
  /\ UNCHANGED <<pc, tmp, err>>

\* for (const f of uploaded): classify and dispatch, up to the next await
NextFile(r) ==
  /\ pc[r] = "loop"
  /\ IF idx[r] > Len(work[r])
       THEN /\ pc' = [pc EXCEPT ![r] = "save"]
            /\ UNCHANGED <<idx, tmp, err>>
       ELSE LET type == IF variant = "extended" THEN getFileType(filename(r))
                        ELSE IF variant = "minimal" THEN getFileTypeMin(filename(r))
                        ELSE "pdf"
                text == ExtractSync(type, CurFile(r))
            IN IF type = "pdf"
                 THEN /\ pc' = [pc EXCEPT ![r] = "load"]
                      /\ UNCHANGED <<idx, tmp, err>>
               ELSE IF type = "image"
                 THEN /\ pc' = [pc EXCEPT ![r] = "image"]
                      /\ UNCHANGED <<idx, tmp, err>>
               ELSE IF type = "word"
                 THEN /\ pc' = [pc EXCEPT ![r] = "word"]
                      /\ UNCHANGED <<idx, tmp, err>>
               ELSE IF type = "null"
                 THEN SkipFile(r)
               ELSE IF text.ok
                 THEN /\ tmp' = [tmp EXCEPT ![r].text = text.value]
                      /\ pc' = [pc EXCEPT ![r] = "font"]
                      /\ UNCHANGED <<idx, err>>
               ELSE /\ FileThrow(r, text.message, "extract")
                    /\ UNCHANGED <<idx, tmp>>
  /\ UNCHANGED <<pure, variant, clients, req, work, merged, docs, res>>

\* const doc = await PDFDocument.load(f.buffer, { ignoreEncryption: false })
LoadPdf(r) ==
  /\ pc[r] = "load"
  /\ LET doc == PDFDocumentLoad(CurFile(r).buffer)
     IN IF doc.ok
          THEN /\ tmp' = [tmp EXCEPT ![r].pageCount = doc.value]
               /\ pc' = [pc EXCEPT ![r] = "copy"]
               /\ UNCHANGED err
          ELSE /\ FileThrow(r, doc.message, "pdf")
               /\ UNCHANGED tmp
  /\ UNCHANGED <<pure, variant, clients, req, work, idx, merged, docs, res>>

\* const pages = await merged.copyPages(...); pages.forEach(p => merged.addPage(p))
CopyPages(r) ==
  /\ pc[r] = "copy"
  /\ docs' = [docs EXCEPT ![merged[r]] =
                addPages(@, [n \in 1..tmp[r].pageCount |-> CopiedPage(CurSrc(r), n)])]
  /\ FileDone(r)
  /\ UNCHANGED <<pure, variant, clients, req, work, merged, tmp, err, res>>

\* const processed = await imageToPdfPage(f.buffer, quality)
ConvertImage(r) ==
  /\ pc[r] = "image"
  /\ LET quality == IF req[r].quality # "" THEN req[r].quality ELSE "medium"
         processed == imageToPdfPage(CurFile(r).buffer, quality)
     IN IF processed.ok
          THEN /\ tmp' = [tmp EXCEPT ![r].processed = processed.value]
               /\ pc' = [pc EXCEPT ![r] = "embed"]
               /\ UNCHANGED err
          ELSE /\ FileThrow(r, processed.message, "image")
               /\ UNCHANGED tmp
  /\ UNCHANGED <<pure, variant, clients, req, work, idx, merged, docs, res>>

\* const img = await merged.embedJpg(...); scale; addPage; drawImage
EmbedImage(r) ==
  /\ pc[r] = "embed"
  /\ docs' = [docs EXCEPT ![merged[r]] = addPages(@, <<ImagePage(CurSrc(r), tmp[r].processed)>>)]
  /\ FileDone(r)
  /\ UNCHANGED <<pure, variant, clients, req, work, merged, tmp, err, res>>

\* const text = await wordToText(f.buffer)
ExtractWord(r) ==
  /\ pc[r] = "word"
  /\ tmp' = [tmp EXCEPT ![r].text = wordToText(CurFile(r).buffer)]
  /\ pc' = [pc EXCEPT ![r] = "font"]
  /\ UNCHANGED <<pure, variant, clients, req, work, idx, merged, docs, err, res>>

\* await textToPdfPages(text, merged, filename): the fonts are embedded,
\* then the text is wrapped and the pages are added
RenderText(r) ==
  /\ pc[r] = "font"
  /\ LET result == IF variant = "extended"
                     THEN textToPdfPages(CurSrc(r), tmp[r].text, filename(r))
                     ELSE textToPdfPagesMin(CurSrc(r), tmp[r].text)
     IN /\ docs' = [docs EXCEPT ![merged[r]] = addPages(@, result.pages)]
        /\ IF result.ok
             THEN FileDone(r) /\ UNCHANGED err
             ELSE FileThrow(r, result.message, "text") /\ UNCHANGED idx
  /\ UNCHANGED <<pure, variant, clients, req, work, merged, tmp, res>>

\* the catch drops the pages the failed file left before it adds the notice
ErrorNoticeReplacing(r) ==
  /\ pc[r] = "notice"
  /\ LET errorText == "Error processing file: " \o filename(r)
                         \o "\n\n" \o err[r].message
         result == textToPdfPages(CurSrc(r), errorText, "Error")
         kept == SelectSeq(docs[merged[r]].pages, LAMBDA p : p.src # CurSrc(r))
     IN /\ docs' = [docs EXCEPT ![merged[r]] = [@ EXCEPT !.pages = kept \o result.pages]]
        /\ IF result.ok
             THEN FileDone(r) /\ err' = [err EXCEPT ![r] = NoErr]
             ELSE /\ err' = [err EXCEPT ![r] = Err(result.message, CurSrc(r), "notice")]
                  /\ pc' = [pc EXCEPT ![r] = "catch"]
                  /\ UNCHANGED idx
  /\ UNCHANGED <<pure, variant, clients, req, work, merged, tmp, res>>

\* catch (err) of app.js: await textToPdfPages(errorText, merged, 'Error')
ErrorNotice(r) ==
  /\ pc[r] = "notice"
  /\ LET errorText == "Error processing file: " \o filename(r)
                         \o "\n\n" \o err[r].message
         result == textToPdfPages(CurSrc(r), errorText, "Error")
     IN /\ docs' = [docs EXCEPT ![merged[r]] = addPages(@, result.pages)]
        /\ IF result.ok
             THEN FileDone(r) /\ err' = [err EXCEPT ![r] = NoErr]
             ELSE /\ err' = [err EXCEPT ![r] = Err(result.message, CurSrc(r), "notice")]
                  /\ pc' = [pc EXCEPT ![r] = "catch"]
                  /\ UNCHANGED idx
  /\ UNCHANGED <<pure, variant, clients, req, work, merged, tmp, res>>

\* const mergedBytes = await merged.save(); res.status(200).send(...)
SaveDocument(r) ==
  /\ pc[r] = "save"
  /\ IF req[r].fault = "save"
       THEN /\ err' = [err EXCEPT ![r] = Err("Failed to serialize document", 0, "save")]
            /\ pc' = [pc EXCEPT ![r] = "catch"]
            /\ UNCHANGED <<docs, res>>
       ELSE /\ docs' = [docs EXCEPT ![merged[r]] = save(@)]
            /\ res' = [res EXCEPT ![r] =
                         Append(@, PdfResponse(docs[merged[r]].pages))]
            /\ pc' = [pc EXCEPT ![r] = "done"]
            /\ UNCHANGED err
  /\ UNCHANGED <<pure, variant, clients, req, work, idx, merged, tmp>>

\* the message the outer catch sends
TopLevelMessage(v, e) ==
  LET msg == IF e.message # "" THEN e.message ELSE "Merge failed."
  IN IF \/ includes(toLowerCase(msg), "encrypted")
        \/ includes(toLowerCase(msg), "password")
       THEN EncryptedSentence(v)
       ELSE msg

\* the outer catch (err): res.status(500).type("text/plain").send(...)
TopLevelCatch(r) ==
  /\ pc[r] = "catch"
  /\ res' = [res EXCEPT ![r] =
               Append(@, TextResponse(500, TopLevelMessage(variant, err[r])))]
  /\ pc' = [pc EXCEPT ![r] = "done"]
  /\ UNCHANGED <<pure, variant, clients, req, work, idx, merged, docs, tmp, err>>

Next ==
  \E r \in Reqs :
    \/ Upload(r)
    \/ MergeEntry(r)
    \/ CreateDocument(r)
    \/ NextFile(r)
    \/ LoadPdf(r)
    \/ CopyPages(r)
    \/ ConvertImage(r)
    \/ EmbedImage(r)
    \/ ExtractWord(r)
    \/ RenderText(r)
    \/ ErrorNotice(r)
    \/ SaveDocument(r)
    \/ TopLevelCatch(r)

Spec == Init /\ [][Next]_vars

SpecConc == InitConc /\ [][Next]_vars

(***************************************************************************)
(* getFileType called on its own with a name.                              *)
(***************************************************************************)
InitClassify ==
  /\ NoServer
  /\ \E n \in ClassifyNames : lookup = [Idle.lookup EXCEPT !.name = n]
  /\ sorting = Idle.sorting
  /\ browser = Idle.browser
  /\ typeset = Idle.typeset
  /\ extract = Idle.extract

Classify ==
  /\ ~lookup.done
  /\ lookup' = [lookup EXCEPT !.done = TRUE,
                              !.type = getFileType(lookup.name),
                              !.typeMin = getFileTypeMin(lookup.name)]
  /\ UNCHANGED <<sorting, browser, typeset, extract>>
  /\ UNCHANGED <<variant, clients, req, pc, work, idx, merged, docs, tmp, err, res>>

NextClassify == Classify

SpecClassify == InitClassify /\ [][NextClassify]_vars

(***************************************************************************)
(* The two naturalSort called on their own, on every pair of three names.  *)
(***************************************************************************)
InitSort ==
  /\ NoServer
  /\ lookup = Idle.lookup
  /\ \E a, b, c \in SortNames : sorting = [Idle.sorting EXCEPT !.names = <<a, b, c>>]
  /\ browser = Idle.browser
  /\ typeset = Idle.typeset
  /\ extract = Idle.extract

CompareServer ==
  /\ sorting.stage = 0
  /\ sorting' = [sorting EXCEPT
                   !.stage = 1,
                   !.server = [i \in 1..3 |-> [j \in 1..3 |->
                                 naturalSort(sorting.names[i], sorting.names[j])]]]
  /\ UNCHANGED <<lookup, browser, typeset, extract>>
  /\ UNCHANGED <<variant, clients, req, pc, work, idx, merged, docs, tmp, err, res>>

CompareBrowser ==
  /\ sorting.stage = 1
  /\ sorting' = [sorting EXCEPT
                   !.stage = 2,
                   !.browser = [i \in 1..3 |-> [j \in 1..3 |->
                                  naturalSortBrowser(sorting.names[i], sorting.names[j])]]]
  /\ UNCHANGED <<lookup, browser, typeset, extract>>
  /\ UNCHANGED <<variant, clients, req, pc, work, idx, merged, docs, tmp, err, res>>

NextSort == CompareServer \/ CompareBrowser

SpecSort == InitSort /\ [][NextSort]_vars

(***************************************************************************)
(* The page in the browser: files are picked or dropped, then merged.      *)
(***************************************************************************)
InitBrowser ==
  /\ NoServer
  /\ lookup = Idle.lookup
  /\ sorting = Idle.sorting
  /\ browser = Idle.browser
  /\ typeset = Idle.typeset
  /\ extract = Idle.extract

\* the change event of the file input, or a drop of files on the page:
\* addFiles, renderFileList, updateStats
AddFiles ==
  /\ \E newFiles \in Batches :
       LET files == addFiles(browser.files, newFiles)
       IN browser' = [browser EXCEPT !.files = files,
                                     !.disabled = updateStats(files)]
  /\ UNCHANGED <<lookup, sorting, typeset, extract>>
  /\ UNCHANGED <<variant, clients, req, pc, work, idx, merged, docs, tmp, err, res>>

\* the remove button of a list item: splice, renderFileList, updateStats
RemoveFile ==
  /\ \E index \in DOMAIN browser.files :
       LET files == remove(browser.files, index)
       IN browser' = [browser EXCEPT !.files = files,
                                     !.disabled = updateStats(files),
                                     !.manual = TRUE]
  /\ UNCHANGED <<lookup, sorting, typeset, extract>>
  /\ UNCHANGED <<variant, clients, req, pc, work, idx, merged, docs, tmp, err, res>>

\* a list item dragged onto another one: the two splices, renderFileList
DropFile ==
  /\ \E from, to \in DOMAIN browser.files :
       /\ from # to
       /\ browser' = [browser EXCEPT !.files = drop(browser.files, from, to),
                                     !.manual = TRUE]
  /\ UNCHANGED <<lookup, sorting, typeset, extract>>
  /\ UNCHANGED <<variant, clients, req, pc, work, idx, merged, docs, tmp, err, res>>

\* a click on the Merge button, which a disabled button does not receive:
\* if (files.length === 0) return; mergeBtn.disabled = true;
\* files.forEach(f => fd.append('files', f, getFileName(f))); xhr.send(fd)
HandleMerge ==
  /\ ~browser.disabled
  /\ Len(browser.files) # 0
  /\ browser.inFlight < MaxMerges
  /\ browser' = [browser EXCEPT
                   !.disabled = TRUE,
                   !.inFlight = @ + 1,
                   !.sent = [k \in DOMAIN browser.files |-> getFileName(browser.files[k])]]
  /\ UNCHANGED <<lookup, sorting, typeset, extract>>
  /\ UNCHANGED <<variant, clients, req, pc, work, idx, merged, docs, tmp, err, res>>

\* the response or the failure of a request: the promise settles and
\* handleMerge ends in finally { mergeBtn.disabled = false }
MergeSettled ==
  /\ browser.inFlight > 0
  /\ browser' = [browser EXCEPT
                   !.disabled = FALSE,
                   !.inFlight = @ - 1,
                   !.sent = IF browser.inFlight = 1 THEN <<>> ELSE @]
  /\ UNCHANGED <<lookup, sorting, typeset, extract>>
  /\ UNCHANGED <<variant, clients, req, pc, work, idx, merged, docs, tmp, err, res>>

NextBrowser == AddFiles \/ RemoveFile \/ DropFile \/ HandleMerge \/ MergeSettled

SpecBrowser == InitBrowser /\ [][NextBrowser]_vars

(***************************************************************************)
(* textToPdfPages on a text: the word wrap, then the pages.                *)
(***************************************************************************)
\* the texts textToPdfPages is called with: a word of n letters, n lines
RECURSIVE Word(_)
Word(n) == IF n <= 1 THEN "w" ELSE Word(n \div 2) \o Word(n - n \div 2)

RECURSIVE LinesOfText(_)
LinesOfText(n) ==
  IF n <= 1 THEN "x"
  ELSE LinesOfText(n \div 2) \o "\n" \o LinesOfText(n - n \div 2)

\* texts of lines that fit, lines with leading, doubled and trailing
\* spaces, a word wider than the column alone and between words, two words
\* that fit on one line at size 10 and not at size 11; texts around the
\* page capacities 43, 44 and 46; a text the font cannot encode
Texts ==
  LET TextLines ==
        {"", "hi there", " a  b ", Word(86), "x " \o Word(86) \o " y",
         Word(40) \o " " \o Word(40)}
  IN {join(lines, "\n") : lines \in SeqsUpTo(TextLines, MaxTextLines) \ {<<>>}}
       \cup {LinesOfText(n) : n \in {43, 44, 45, 46, 47, 87, 90, 93}}
       \cup {"x " \o Ideograph}

InitText ==
  /\ NoServer
  /\ lookup = Idle.lookup
  /\ sorting = Idle.sorting
  /\ browser = Idle.browser
  /\ extract = Idle.extract
  /\ \E text \in Texts, call \in {<<"extended", "notes.txt">>, <<"extended", "">>,
                                  <<"minimal", "">>} :
       typeset = [Idle.typeset EXCEPT !.text = text, !.font = call[1],
                                   !.title = call[2], !.stage = "called"]

\* the loop over the lines of the text; widthOfTextAtSize throws on a
\* character the font cannot encode
WrapText ==
  /\ typeset.stage = "called"
  /\ typeset' =
       IF Unencodable(typeset.text) # {}
         THEN [typeset EXCEPT !.stage = "threw"]
         ELSE [typeset EXCEPT !.stage = "wrapped",
                              !.wrappedLines = WordWrap(typeset.text, FontSize(typeset.font))]
  /\ UNCHANGED <<lookup, sorting, browser, extract>>
  /\ UNCHANGED <<variant, clients, req, pc, work, idx, merged, docs, tmp, err, res>>

\* the loop that creates the pages
CreateTextPages ==
  /\ typeset.stage = "wrapped"
  /\ typeset' =
       [typeset EXCEPT
          !.stage = "paged",
          !.pages = CreatePages(typeset.text, typeset.wrappedLines, 0,
                                MaxLinesPerPage(typeset.title, FontSize(typeset.font),
                                                LineFactor(typeset.font)),
                                typeset.title, <<>>).pages]
  /\ UNCHANGED <<lookup, sorting, browser, extract>>
  /\ UNCHANGED <<variant, clients, req, pc, work, idx, merged, docs, tmp, err, res>>

NextText == WrapText \/ CreateTextPages

SpecText == InitText /\ [][NextText]_vars

(***************************************************************************)
(* The extractors called on their own on a buffer.                         *)
(***************************************************************************)
\* documents, texts and sheets, presentations with and without text runs,
\* archives that cannot be opened, bytes that are no document
ExtractBuffers ==
  {Buf("docx", 0, 0, 0, text) : text \in {"w", ""}}
    \cup {Buf("text", 0, 0, 0, text) :
            text \in {"", "hi there", "name,n\nx,1", "a,,b\n1,,2",
                      Word(31) \o ",b", DeepMarkdown}}
    \cup {Buf(kind, 0, 0, 0, text) :
            kind \in {"pptx", "badzip"},
            text \in {"<a:t>Hi</a:t><a:t>all</a:t>", "<p>"}}
    \cup {Buf("junk", 0, 0, 0, "")}

InitExtract ==
  /\ NoServer
  /\ lookup = Idle.lookup
  /\ sorting = Idle.sorting
  /\ browser = Idle.browser
  /\ typeset = Idle.typeset
  /\ \E fn \in {"word", "excel", "markdown", "html", "powerpoint"},
        buffer \in ExtractBuffers :
       extract = [Idle.extract EXCEPT !.fn = fn, !.buffer = buffer,
                                      !.stage = "called"]

\* the extractor runs: it returns a text, or what it throws leaves it
CallExtractor ==
  /\ extract.stage = "called"
  /\ LET result == IF extract.fn = "word" THEN Ok(wordToText(extract.buffer))
                   ELSE ExtractSync(extract.fn, File("", "", extract.buffer))
     IN extract' = [extract EXCEPT
                      !.stage = IF result.ok THEN "returned" ELSE "threw",
                      !.text = IF result.ok THEN result.value ELSE result.message]
  /\ UNCHANGED <<lookup, sorting, browser, typeset>>
  /\ UNCHANGED <<variant, clients, req, pc, work, idx, merged, docs, tmp, err, res>>

NextExtract == CallExtractor

SpecExtract == InitExtract /\ [][NextExtract]_vars

TypeOK ==
  /\ variant \in Variants
  /\ clients \in {0, 1, 2}
  /\ \A r \in Reqs :
       /\ pc[r] \in {"idle", "start", "create", "loop", "load", "copy", "image",
                     "embed", "word", "font", "notice", "save", "catch", "done"}
       /\ merged[r] \in 0..Len(docs)
       /\ Len(res[r]) <= 2

(***************************************************************************)
(* The handler run to completion on one request with nothing else going    *)
(* on: what the loop body does with one file, and the response.            *)
(***************************************************************************)
Category(v, f) ==
  IF v = "extended" THEN getFileType(f.originalname)
  ELSE IF v = "minimal" THEN getFileTypeMin(f.originalname)
  ELSE IF \/ f.mimetype = "application/pdf"
          \/ endsWith(toLowerCase(f.originalname), ".pdf") THEN "pdf"
  ELSE "null"

EffectiveQuality(q) == IF q # "" THEN q ELSE "medium"

\* the try block of the loop body for file f at position src
TryFile(v, src, f, q) ==
  LET type == Category(v, f)
  IN IF type = "pdf"
       THEN LET doc == PDFDocumentLoad(f.buffer)
            IN IF doc.ok
                 THEN [pages |-> [n \in 1..doc.value |-> CopiedPage(src, n)],
                       ok |-> TRUE, message |-> ""]
                 ELSE [pages |-> <<>>, ok |-> FALSE, message |-> doc.message]
     ELSE IF type = "image"
       THEN LET processed == imageToPdfPage(f.buffer, EffectiveQuality(q))
            IN IF processed.ok
                 THEN [pages |-> <<ImagePage(src, processed.value)>>,
                       ok |-> TRUE, message |-> ""]
                 ELSE [pages |-> <<>>, ok |-> FALSE, message |-> processed.message]
     ELSE IF type = "null"
       THEN [pages |-> <<>>, ok |-> TRUE, message |-> ""]
     ELSE IF v = "minimal"
       THEN textToPdfPagesMin(src, BufferToString(f.buffer))
     ELSE LET text == IF type = "word" THEN Ok(wordToText(f.buffer))
                      ELSE ExtractSync(type, f)
          IN IF text.ok THEN textToPdfPages(src, text.value, f.originalname)
             ELSE [pages |-> <<>>, ok |-> FALSE, message |-> text.message]

\* the whole loop body: the pages file f leaves in the document, and the
\* error that leaves the loop, if one does
ConvertFile(v, src, f, q) ==
  LET try == TryFile(v, src, f, q)
  IN IF try.ok THEN try
     ELSE IF v = "extended"
       THEN LET notice == textToPdfPages(src,
                            "Error processing file: " \o f.originalname
                               \o "\n\n" \o try.message, "Error")
            IN [pages |-> try.pages \o notice.pages, ok |-> notice.ok,
                message |-> notice.message]
     ELSE IF v = "minimal"
       THEN [pages |-> try.pages, ok |-> FALSE,
             message |-> "Failed to process " \o f.originalname \o ": " \o try.message]
     ELSE try

RECURSIVE MergeLoop(_, _, _, _, _)
MergeLoop(v, request, list, k, pages) ==
  IF k > Len(list)
    THEN (IF request.fault = "save"
            THEN TextResponse(500,
                     TopLevelMessage(v, Err("Failed to serialize document", 0, "save")))
            ELSE PdfResponse(pages))
  ELSE LET group == ConvertFile(v, list[k], request.files[list[k]], request.quality)
       IN IF group.ok
            THEN MergeLoop(v, request, list, k + 1, pages \o group.pages)
            ELSE TextResponse(500,
                     TopLevelMessage(v, Err(group.message, list[k], "")))

MergeAlone(v, request) ==
  LET list == IF v = "pdfonly" THEN PdfPositions(request.files)
              ELSE AllPositions(request.files)
  IN IF Len(list) = 0
       THEN TextResponse(400, EmptyBatchSentence(v))
     ELSE IF request.fault = "create"
       THEN TextResponse(500,
                     TopLevelMessage(v, Err("Failed to create document", 0, "create")))
     ELSE MergeLoop(v, request, list, 1, <<>>)

(***************************************************************************)
(* Properties.                                                             *)
(***************************************************************************)
Active(r) == pc[r] # "idle"

PagesOf(r) == IF merged[r] = 0 THEN <<>> ELSE docs[merged[r]].pages

GroupOf(pages, i) == SelectSeq(pages, LAMBDA p : p.src = i)

Sent(r, status) == \E k \in DOMAIN res[r] : res[r][k].status = status

IsPrefix(s, t) == Len(s) <= Len(t) /\ SubSeq(t, 1, Len(s)) = s

\* C1: at every moment the pages of the output document are grouped by
\* source file in upload order, and in the PDF that is sent the group of
\* every file is what that file alone determines, whatever its position
\* and whatever the other files are.
C1_PageGroupsFollowUploadOrder ==
  \A r \in Reqs :
    /\ \A p, q \in DOMAIN PagesOf(r) :
         p < q => PagesOf(r)[p].src <= PagesOf(r)[q].src
    /\ \A k \in DOMAIN res[r] :
         res[r][k].status = 200 =>
           \A i \in DOMAIN req[r].files :
             GroupOf(res[r][k].body, i)
               = IF \E j \in DOMAIN work[r] : work[r][j] = i
                   THEN ConvertFile(variant, i, req[r].files[i], req[r].quality).pages
                   ELSE <<>>

C1_Witness ==
  \E r \in Reqs :
    /\ Sent(r, 200)
    /\ Len(GroupOf(res[r][1].body, 1)) >= 2
    /\ Len(GroupOf(res[r][1].body, 2)) >= 1
    /\ req[r].files[1] # req[r].files[2]

Unloadable(f) == ~PDFDocumentLoad(f.buffer).ok

\* C2: in the extended handler no failure in the conversion of a non-PDF
\* file, the rendering of its error notice included, reaches the outer
\* catch: the handler goes on and the request ends with the 200 PDF.
C2_NonPdfFailureNeverAborts ==
  \A r \in Reqs :
    (/\ variant = "extended"
     /\ err[r].at # 0
     /\ getFileType(req[r].files[err[r].at].originalname) # "pdf")
      => /\ pc[r] # "catch"
         /\ ~Sent(r, 500)

\* C3: in the extended handler a request that holds a PDF that cannot be
\* loaded ends with the plain-text 500 and no PDF.
C3_UnloadablePdfAborts ==
  \A r \in Reqs :
    (/\ variant = "extended"
     /\ pc[r] = "done"
     /\ \E i \in DOMAIN req[r].files :
          /\ getFileType(req[r].files[i].originalname) = "pdf"
          /\ Unloadable(req[r].files[i]))
      => /\ Sent(r, 500)
         /\ ~Sent(r, 200)

\* C4: in the minimal handler only a failure to load a PDF leaves the loop
\* for the outer catch; a failed image or text conversion does not.
C4_MinimalConversionFailureContinues ==
  \A r \in Reqs :
    (variant = "minimal" /\ pc[r] \in {"catch", "done"} /\ err[r].at # 0)
      => err[r].stage = "pdf"

WellFormed(response) ==
  \/ response.status = 200 /\ response.type = "application/pdf"
  \/ response.status \in {400, 500} /\ response.type = "text/plain"

\* what is left for the handler of r to do: the files the loop has yet to
\* visit, then the continuations left for the file it is at
Rank(r) ==
  LET left == IF idx[r] <= Len(work[r]) THEN Len(work[r]) - idx[r] + 1 ELSE 0
      stage == IF pc[r] = "loop" THEN 7
               ELSE IF pc[r] \in {"load", "image", "word"} THEN 6
               ELSE IF pc[r] \in {"copy", "embed", "font"} THEN 5
               ELSE 4
  IN IF pc[r] = "done" THEN 0
     ELSE IF pc[r] = "catch" THEN 1
     ELSE IF pc[r] = "save" THEN 2
     ELSE IF pc[r] = "create" THEN 8 * (Len(req[r].files) + 2)
     ELSE IF pc[r] = "start" THEN 8 * (Len(req[r].files) + 2) + 1
     ELSE 8 * left + stage

\* C5: a request never has two responses; every response is the PDF with
\* 200 or plain text with 400 or 500; the handler has sent exactly one
\* response when it is done and none before; and it gets there: it is
\* never at a place without a continuation, and every step of it leaves
\* strictly less to do.
C5_ExactlyOneResponse ==
  /\ [](\A r \in Reqs :
          /\ Len(res[r]) <= 1
          /\ \A k \in DOMAIN res[r] : WellFormed(res[r][k])
          /\ pc[r] = "done" <=> Len(res[r]) = 1
          /\ pc[r] \in {"idle", "start", "create", "loop", "load", "copy", "image",
                        "embed", "word", "font", "notice", "save", "catch", "done"}
          /\ pc[r] \in {"load", "copy", "image", "embed", "word", "font", "notice"}
               => idx[r] \in DOMAIN work[r] /\ merged[r] # 0
          /\ pc[r] \in {"loop", "save"} => merged[r] # 0)
  /\ [][\A r \in Reqs :
          (pc[r] # "idle" /\ <<pc[r], idx[r], res[r]>>' # <<pc[r], idx[r], res[r]>>)
            => Rank(r)' < Rank(r)]_vars

C5_Witness ==
  \E r \in Reqs :
    /\ pc[r] = "done"
    /\ Len(res[r]) = 1
    /\ res[r][1].status = 500
    /\ err[r].stage = "notice"

\* C6: a request without files is answered with the plain-text 400 and
\* nothing else happens for it: no document is created, no file is
\* visited, no PDF is sent.
C6_EmptyBatchRejected ==
  \A r \in Reqs :
    (Active(r) /\ Len(req[r].files) = 0)
      => /\ pc[r] \in {"start", "done"}
         /\ merged[r] = 0
         /\ docs = <<>>
         /\ work[r] = <<>> /\ idx[r] = 0
         /\ pc[r] = "start" => res[r] = <<>>
         /\ pc[r] = "done" =>
              res[r] = <<TextResponse(400, EmptyBatchSentence(variant))>>

C6_Witness ==
  \E r \in Reqs :
    Active(r) /\ Len(req[r].files) = 0 /\ pc[r] = "done" /\ Sent(r, 400)

\* C7: a 500 carries the sentence about encrypted PDFs exactly when the
\* failure is that of loading an encrypted PDF.
C7_EncryptedSentenceIff ==
  \A r \in Reqs : \A k \in DOMAIN res[r] :
    res[r][k].status = 500 =>
      (res[r][k].text = EncryptedSentence(variant)
         <=> (/\ err[r].stage = "pdf"
              /\ req[r].files[err[r].at].buffer.kind = "encpdf"))

\* C8: with two requests in flight, interleaved in any way, the response
\* of each is the response the handler gives that request on its own, and
\* nothing is sent before the handler is done.
C8_RequestsIndependent ==
  \A r \in Reqs :
    /\ pc[r] = "done" => res[r] = <<MergeAlone(variant, req[r])>>
    /\ pc[r] # "done" => res[r] = <<>>

C8_Witness ==
  /\ pc[1] = "done" /\ Sent(1, 200) /\ Len(res[1][1].body) >= 1
  /\ pc[2] \in {"loop", "load", "copy", "image", "font", "notice", "save"}
  /\ merged[2] # 0 /\ merged[2] < merged[1]
  /\ Len(docs[merged[2]].pages) >= 1

\* C9: a document is created empty, a step changes its pages only by
\* adding pages at the end, it is serialized at most once, only when the
\* loop has visited every file and only for the 200 response, and it is
\* never serialized for a request that ends with an error.
C9_AppendOnlySerializedOnce ==
  /\ [][/\ \A d \in DOMAIN docs :
             /\ d \in DOMAIN docs'
             /\ IsPrefix(docs[d].pages, docs'[d].pages)
        /\ \A d \in DOMAIN docs' : d \notin DOMAIN docs => docs'[d] = EmptyDoc]_vars
  /\ [](\A r \in Reqs :
          /\ merged[r] # 0 =>
               /\ docs[merged[r]].saved <= 1
               /\ docs[merged[r]].saved = 1 =>
                    /\ idx[r] > Len(work[r])
                    /\ res[r] = <<PdfResponse(docs[merged[r]].pages)>>
               /\ Sent(r, 500) => docs[merged[r]].saved = 0
          /\ Sent(r, 200) => merged[r] # 0 /\ docs[merged[r]].saved = 1)

C9_Witness ==
  \E r \in Reqs :
    /\ Sent(r, 200)
    /\ docs[merged[r]].saved = 1
    /\ \E p \in DOMAIN docs[merged[r]].pages :
         /\ docs[merged[r]].pages[p].title = "Error"
         /\ p > 1

\* C10: in a PDF that is sent, every file of a recognised category has at
\* least one page.
C10_EveryRecognisedFileHasAPage ==
  \A r \in Reqs : \A k \in DOMAIN res[r] :
    res[r][k].status = 200 =>
      \A i \in DOMAIN req[r].files :
        Category(variant, req[r].files[i]) # "null"
          => Len(GroupOf(res[r][k].body, i)) >= 1

\* C11: getFileType returns, for every name, one of the categories or null;
\* no suffix is listed under two categories; the result is that of the
\* final dot-suffix alone, whatever precedes it; and names that differ
\* only in letter case get the same result.  The same for the classifier
\* of the minimal server.
C11_ClassifierTotalCaseInsensitive ==
  lookup.done =>
    /\ lookup.type \in DOMAIN SUPPORTED \cup {"null"}
    /\ lookup.typeMin \in DOMAIN SUPPORTED_MIN \cup {"null"}
    /\ \A t, u \in DOMAIN SUPPORTED : t # u => SUPPORTED[t] \cap SUPPORTED[u] = {}
    /\ \A t, u \in DOMAIN SUPPORTED_MIN :
         t # u => SUPPORTED_MIN[t] \cap SUPPORTED_MIN[u] = {}
    /\ \A stem \in NameStems, ending \in NameEndings :
         (/\ lookup.name = stem \o ending
          /\ Len(ending) >= 2
          /\ {i \in 1..Len(ending) : Ch(ending, i) = "."} = {1})
           => /\ lookup.type = getFileType(ending)
              /\ lookup.typeMin = getFileTypeMin(ending)
    /\ ({i \in 1..Len(lookup.name) : Ch(lookup.name, i) = "."} = {}
          \/ Ch(lookup.name, Len(lookup.name)) = ".")
         => lookup.type = "null" /\ lookup.typeMin = "null"
    /\ \A n \in ClassifyNames :
         toLowerCase(n) = toLowerCase(lookup.name)
           => /\ getFileType(n) = lookup.type
              /\ getFileTypeMin(n) = lookup.typeMin

C11_Witness ==
  /\ lookup.done
  /\ lookup.name = "A.b.PDF"
  /\ lookup.type = "pdf"
  /\ lookup.typeMin = "pdf"

\* the results of a comparator on the three names are those of an order
ValidComparator(results) ==
  /\ \A i \in 1..3 : Sign(results[i][i]) = 0
  /\ \A i, j \in 1..3 : Sign(results[i][j]) = 0 - Sign(results[j][i])
  /\ \A i, j, k \in 1..3 :
       (Sign(results[i][j]) <= 0 /\ Sign(results[j][k]) <= 0)
         => Sign(results[i][k]) <= 0

\* C12: both naturalSort are sort comparators: a name compares 0 with
\* itself, exchanging the arguments changes the sign of the result, and
\* a <= b and b <= c give a <= c.
C12_NaturalSortIsComparator ==
  /\ sorting.stage >= 1 => ValidComparator(sorting.server)
  /\ sorting.stage >= 2 => ValidComparator(sorting.browser)

\* C13: the naturalSort of the server returns 0 only for a name and itself.
C13_NaturalSortTiesOnlyEqual ==
  sorting.stage >= 1 =>
    \A i, j \in 1..3 :
      Sign(sorting.server[i][j]) = 0 => sorting.names[i] = sorting.names[j]

\* C14: the page made for an image that is at most 612 by 792 pixels after
\* processing has the pixel size of the image, and the image is drawn on
\* it at scale 1.
C14_SmallImagesKeepTheirSize ==
  \A r \in Reqs : \A n \in DOMAIN PagesOf(r) :
    LET page == PagesOf(r)[n]
        processed == imageToPdfPage(req[r].files[page.src].buffer,
                                    EffectiveQuality(req[r].quality)).value
    IN (/\ page.kind = "image"
        /\ processed.width <= 612
        /\ processed.height <= 792)
         => /\ page.den = 1
            /\ page.drawn = <<processed.width, processed.height>>
            /\ page.size = <<processed.width, processed.height>>

\* C15: for a request whose quality is neither low nor high, the image
\* that imageToPdfPage returns is encoded at JPEG quality 75 and is the
\* upload fitted inside 2000 by 2000 pixels.
C15_OtherQualityIsMedium ==
  \A r \in Reqs :
    (pc[r] = "embed" /\ req[r].quality \notin {"low", "high"})
      => LET buffer == CurFile(r).buffer
             fitted == ResizeInside(buffer.w, buffer.h, 2000)
         IN /\ tmp[r].processed.jpeg = 75
            /\ tmp[r].processed.width = fitted[1]
            /\ tmp[r].processed.height = fitted[2]

\* C16: in the extended handler, once the catch has run for a file whose
\* conversion failed, the pages of that file in the document are one page,
\* titled Error, that names the file and gives the message.
C16_FailedFileLeavesOnlyTheNotice ==
  \A r \in Reqs : \A k \in DOMAIN work[r] :
    LET i == work[r][k]
        f == req[r].files[i]
        try == TryFile(variant, i, f, req[r].quality)
        group == GroupOf(PagesOf(r), i)
    IN (/\ variant = "extended"
        /\ merged[r] # 0
        /\ ~try.ok
        /\ \/ k < idx[r]
           \/ k = idx[r] /\ err[r].stage = "notice")
         => /\ Len(group) = 1
            /\ group[1].title = "Error"
            /\ group[1].lines
                 = <<"Error processing file: " \o f.originalname, "", try.message>>

\* the names are in the order of the browser's naturalSort of their
\* lower-cased forms
NaturallySorted(names) ==
  \A p, q \in DOMAIN names :
    p < q => CompareKeys[names[p]][names[q]] <= 0

\* C17: with files only added, never reordered or removed by hand, after
\* every addFiles the file list of the page is in natural-sort order of the
\* lower-cased display paths, and so is what the page uploads.
C17_FileListStaysSorted ==
  ~browser.manual =>
  /\ NaturallySorted([k \in DOMAIN browser.files |-> getFileName(browser.files[k])])
  /\ NaturallySorted(browser.sent)

\* C18: the pages of a text hold floor((792 - 2*50 - titleReserved) /
\* lineHeight) lines, with the 40pt of the title deducted on the first page
\* of a titled call only: every page but the last holds exactly that many
\* lines, the last one at least one and at most that many, so that in a
\* titled call the pages after the first hold the untitled capacity.
C18_LaterPagesHoldFullCapacity ==
  typeset.stage = "paged" =>
    LET pages == typeset.pages
        capacity(p) ==
          MaxLinesPerPage(IF p = 1 THEN typeset.title ELSE "",
                          FontSize(typeset.font), LineFactor(typeset.font))
    IN \A p \in DOMAIN pages :
         IF p < Len(pages)
           THEN Len(pages[p].lines) = capacity(p)
           ELSE Len(pages[p].lines) \in 1..capacity(p)

\* the non-empty space-separated words of a line
Words(line) == SelectSeq(split(line, " "), LAMBDA w : w # "")

\* the words of the lines lo..hi in order, with "" for every empty line
RECURSIVE Tokens(_, _, _)
Tokens(lines, lo, hi) ==
  IF lo > hi THEN <<>>
  ELSE IF lo = hi THEN (IF lines[lo] = "" THEN <<"">> ELSE Words(lines[lo]))
  ELSE Tokens(lines, lo, (lo + hi) \div 2) \o Tokens(lines, (lo + hi) \div 2 + 1, hi)

C20_WideLinesAreSingleWords ==
  typeset.stage \in {"wrapped", "paged"} =>
    LET wrapped == typeset.wrappedLines
        lines == split(typeset.text, "\n")
        words == Tokens(lines, 1, Len(lines))
        Wide(str) == Len(str) * CourierAdvance * FontSize(typeset.font) > 512 * 1000
        Holding(w) == {k \in DOMAIN wrapped :
                         \E j \in DOMAIN Words(wrapped[k]) : Words(wrapped[k])[j] = w}
    IN /\ \A k \in DOMAIN wrapped :
            Wide(wrapped[k]) => Words(wrapped[k]) = <<wrapped[k]>>
       /\ \A i \in DOMAIN words :
            Wide(words[i]) =>
              /\ \A k \in Holding(words[i]) : wrapped[k] = words[i]
              /\ Cardinality(Holding(words[i]))
                   = Cardinality({j \in DOMAIN words : words[j] = words[i]})

\* a word wider than the column, between two words on a line of the text,
\* is alone on a wrapped line that overflows
C20_Witness ==
  /\ typeset.stage = "wrapped"
  /\ typeset.font = "extended"
  /\ typeset.text = "x " \o Word(86) \o " y"
  /\ typeset.wrappedLines = <<"x", Word(86), "y">>
  /\ TooWide(typeset.wrappedLines[2], 10)

\* C21: every page made for an image has the width and height at which
\* the image is drawn on it (from the origin), so the image fills the page.
C21_ImageFillsItsPage ==
  \A r \in Reqs : \A n \in DOMAIN PagesOf(r) :
    PagesOf(r)[n].kind = "image" => PagesOf(r)[n].drawn = PagesOf(r)[n].size

\* C22: a call of wordToText, excelToText, markdownToText, htmlToText or
\* pptxToText ends by returning a text, whatever the buffer and whether or
\* not the library that parses it fails: nothing thrown leaves the call.
C22_ExtractorsNeverThrow ==
  extract.stage \in {"idle", "called", "returned"}

\* C23: the text pptxToText returns is never empty, and when the
\* structured extraction throws or yields nothing it is the text runs
\* scraped from the raw buffer, joined by newlines, or, when there is no
\* such run, the fixed placeholder.
C23_PptxFallbackChain ==
  (extract.fn = "powerpoint" /\ extract.stage = "returned") =>
    LET zip == XLSXRead(extract.buffer)
        structured == IF zip.ok /\ Len(zip.value) > 0 THEN trim(zip.value[1]) ELSE ""
        scraped == join(TextRuns(BufferToString(extract.buffer), 1), "\n")
    IN /\ extract.text # ""
       /\ structured = "" =>
            extract.text = IF scraped # "" THEN scraped
                           ELSE "(Could not extract text from presentation)"

\* C24: the text excelToText returns for a sheet with rows is the table in
\* which every column is as wide as its longest cell, 30 at most, every
\* cell is cut to 30 characters and padded to the width of its column, and
\* a rule of the widths of the columns follows the header row (so that
\* every row is as long as the rule), trimmed at both ends.
C24_CellsPaddedToColumnWidth ==
  (/\ extract.fn = "excel"
   /\ extract.stage = "returned"
   /\ extract.buffer.kind = "text"
   /\ extract.buffer.text # "") =>
    LET data == SheetData(extract.buffer.text)
        width == [i \in DOMAIN data[1] |->
                    Min(30, CHOOSE n \in {Len(data[k][i]) : k \in DOMAIN data} :
                              \A k \in DOMAIN data : Len(data[k][i]) <= n)]
        Cell(k, i) == padEnd(SubSeq(data[k][i], 1, Min(30, Len(data[k][i]))), width[i])
        Row(k) == join([i \in DOMAIN data[k] |-> Cell(k, i)], " | ")
        rule == join([i \in DOMAIN width |-> repeat("-", width[i])], "-+-")
        lines == <<Row(1), rule>> \o [k \in 1..(Len(data) - 1) |-> Row(k + 1)]
    IN /\ \A k \in DOMAIN data : Len(Row(k)) = Len(rule)
       /\ extract.text = trim(join(lines, "\n"))

\* C25: in the extended and the minimal server, the step of the loop at
\* a file of no recognised category changes no document, raises no error,
\* sends nothing and leaves the loop at the next file; no page of a
\* document belongs to such a file.
C25_UnrecognizedFileIsSkipped ==
  /\ [][\A r \in Reqs :
          (/\ variant \in {"extended", "minimal"}
           /\ pc[r] = "loop"
           /\ idx[r] <= Len(work[r])
           /\ Category(variant, CurFile(r)) = "null")
            => /\ docs' = docs
               /\ err' = err
               /\ res' = res
               /\ pc'[r] = "loop"
               /\ idx'[r] = idx[r] + 1]_vars
  /\ [](\A r \in Reqs : \A n \in DOMAIN PagesOf(r) :
          variant \in {"extended", "minimal"}
            => Category(variant, req[r].files[PagesOf(r)[n].src]) # "null")

\* a PDF is sent for an upload whose first file has no recognised category
\* and whose second file is a PDF: it holds the pages of the second alone
C25_Witness ==
  \E r \in Reqs :
    /\ variant \in {"extended", "minimal"}
    /\ Len(req[r].files) = 2
    /\ Category(variant, req[r].files[1]) = "null"
    /\ Sent(r, 200)
    /\ Len(res[r][1].body) = 2
    /\ \A n \in DOMAIN res[r][1].body : res[r][1].body[n].src = 2


\* C26: while a merge request is in flight the Merge button stays disabled,
\* whatever is added, removed, reordered or clicked meanwhile, so at most
\* one request started by handleMerge is in flight at any time.
C26_OneMergeInFlight ==
  /\ browser.inFlight > 0 => browser.disabled
  /\ browser.inFlight <= 1

\* C27: whenever no merge request is in flight, the Merge button is enabled
\* if and only if the file list is not empty.
C27_ButtonFollowsList ==
  browser.inFlight = 0 => (~browser.disabled <=> Len(browser.files) # 0)


\* C28: the file list of the page never holds two entries with the same
\* display name and the same size, and holds only files of a supported
\* type, whatever was added (a batch may hold a file twice), removed or
\* reordered.
C28_ListHasNoDuplicates ==
  /\ \A i, j \in DOMAIN browser.files :
       i # j => \/ getFileName(browser.files[i]) # getFileName(browser.files[j])
                \/ browser.files[i].size # browser.files[j].size
  /\ \A i \in DOMAIN browser.files : getFileType(browser.files[i].name) # "null"

\* the list after adds, a removal or a reorder: three files, two of them
\* with one display name and two sizes
C28_Witness ==
  /\ browser.manual
  /\ Len(browser.files) = 3
  /\ \E i, j \in DOMAIN browser.files :
       /\ i < j
       /\ getFileName(browser.files[i]) = getFileName(browser.files[j])
       /\ browser.files[i].size # browser.files[j].size


\* C29: a drop of the list item at index from onto the item at index to
\* leaves the list a permutation of itself: same length, same entries, the
\* moved file at index to, the other files in the order they had; a drop
\* of an item onto itself changes nothing.  Checked for every pair of
\* indices of every list the page reaches.
C29_DropIsAMove ==
  \A from, to \in DOMAIN browser.files :
    LET files == browser.files
        after == drop(files, from, to)
        at(f) == CHOOSE k \in DOMAIN after : after[k] = f
    IN /\ Len(after) = Len(files)
       /\ {after[k] : k \in DOMAIN after} = {files[k] : k \in DOMAIN files}
       /\ from = to => after = files
       /\ from # to => after[to] = files[from]
       /\ \A a, b \in DOMAIN files \ {from} :
            a < b => at(files[a]) < at(files[b])

\* the list after a drop of its last item onto its first one: the three
\* text files with the file of the latest add in front
C29_Witness ==
  /\ browser.manual
  /\ browser.files = << BrowserFile("", "A10.TXT", 1), BrowserFile("", "a2.txt", 1),
                        BrowserFile("", "a2.txt", 2) >>


\* C30: every file the page accepts into its list, by getFileType of its
\* name, gets the same category, not null, from the server's getFileType
\* of the display name it is uploaded under (a relative path for a file of
\* a folder), so no file of the list is skipped by POST /merge.
C30_AcceptedFilesAreConverted ==
  /\ \A k \in DOMAIN browser.files :
       LET f == browser.files[k]
       IN /\ getFileType(f.name) # "null"
          /\ getFileType(getFileName(f)) = getFileType(f.name)
  /\ \A k \in DOMAIN browser.sent :
       Category("extended", File(browser.sent[k], "", Buf("", 0, 0, 0, ""))) # "null"

\* a request in flight that uploads a file of a folder whose name has a dot
C30_Witness ==
  /\ browser.inFlight > 0
  /\ \E k \in DOMAIN browser.sent : browser.sent[k] = "v1.2/b.pdf"

====
